---- MODULE Spec2Model ----
(***************************************************************************)
(* Model of the service layer of the GPU-economics backend:                *)
(*   - TrainingService  (src/app/services/training_service.py): the quiz   *)
(*     catalog, submit_quiz and get_user_progress over user_progress;      *)
(*   - AIAgentService   (src/app/services/ai_service.py): _analyze_intent, *)
(*     _calculate_custom_tco and _calculate_roi, chat and its generators;  *)
(*   - BloombergService (src/app/services/bloomberg_service.py): the       *)
(*     connection and the fallback data;                                   *)
(*   - the training routes and the dashboard overview (src/app/api).       *)
(* Python floats are modelled as exact rationals [n, d] in lowest terms;   *)
(* Python strings that are searched are modelled as tuples of characters.  *)
(***************************************************************************)
EXTENDS Integers, Sequences, FiniteSets, TLC

VARIABLES user_progress, call, ret, submitted, last_progress, history,
          bloomberg, chat_seen, threads, routes

vars == <<user_progress, call, ret, submitted, last_progress, history,
          bloomberg, chat_seen, threads, routes>>

\* The state outside the TrainingService instance of the training routes.
other_services == <<bloomberg, chat_seen, threads, routes>>

(***************************************************************************)
(* Bounds of the model.                                                    *)
(***************************************************************************)
MaxAnswers == 2
MaxEntries == 2
MaxWords == 2
MaxGpus == 2
MaxYears == 2
MaxSecurities == 2
MaxFields == 2
MaxDay == 7

(***************************************************************************)
(* Exact rational arithmetic, standing for Python's float arithmetic.      *)
(***************************************************************************)
Abs(x) == IF x < 0 THEN -x ELSE x

RECURSIVE GCD(_, _)
GCD(a, b) == IF b = 0 THEN a ELSE GCD(b, a % b)

Rat(n, d) ==
    LET s == IF d < 0 THEN -1 ELSE 1
        g == GCD(Abs(n), Abs(d))
    IN  [n |-> (s * n) \div g, d |-> (s * d) \div g]

RInt(i) == [n |-> i, d |-> 1]

RMul(a, b) ==
    LET g1 == GCD(Abs(a.n), b.d)
        g2 == GCD(Abs(b.n), a.d)
    IN  IF a.n = 0 \/ b.n = 0 THEN RInt(0)
        ELSE [n |-> (a.n \div g1) * (b.n \div g2),
              d |-> (a.d \div g2) * (b.d \div g1)]

RDiv(a, b) == RMul(a, Rat(b.d, b.n))

RAdd(a, b) ==
    LET g == GCD(a.d, b.d)
    IN  Rat(a.n * (b.d \div g) + b.n * (a.d \div g), a.d * (b.d \div g))

RNeg(a) == [n |-> -a.n, d |-> a.d]

RSub(a, b) == RAdd(a, RNeg(b))

RLeq(a, b) == RSub(a, b).n <= 0

RLess(a, b) == RSub(a, b).n < 0

(***************************************************************************)
(* Python's None.                                                          *)
(***************************************************************************)
None == [none |-> TRUE]

(***************************************************************************)
(* The training catalog: _initialize_modules.  Each module keeps its       *)
(* ordered lessons; each lesson its id and its quiz (options and the       *)
(* index of the correct option, 0-based as in the source).                 *)
(***************************************************************************)
modules ==
    [gpu_fundamentals |-> [lessons |-> <<
        [id |-> "gpu_1", quiz |-> <<
            [options |-> <<"Higher clock speed",
                           "Massive parallelism for matrix operations",
                           "Lower power consumption",
                           "Simpler programming model">>,
             correct |-> 1],
            [options |-> <<"Memory capacity",
                           "Power consumption",
                           "Floating-point operations per second",
                           "Data transfer speed">>,
             correct |-> 2] >>],
        [id |-> "gpu_2", quiz |-> <<
            [options |-> <<"Ampere", "Hopper", "Blackwell", "Volta">>,
             correct |-> 1] >>] >>],
     tco_modeling |-> [lessons |-> <<
        [id |-> "tco_1", quiz |-> <<
            [options |-> <<"Power Unit Efficiency",
                           "Power Usage Effectiveness",
                           "Processing Unit Energy",
                           "Parallel Utilization Efficiency">>,
             correct |-> 1],
            [options |-> <<"5,000 kWh", "6,132 kWh", "8,760 kWh", "10,000 kWh">>,
             correct |-> 1] >>],
        [id |-> "tco_2", quiz |-> <<
            [options |-> <<"20-30%", "40-50%", "70%+", "90%+">>,
             correct |-> 2] >>] >>],
     neocloud_economics |-> [lessons |-> <<
        [id |-> "neo_1", quiz |-> <<
            [options |-> <<"Lower prices",
                           "GPU/AI infrastructure specialization",
                           "More datacenters",
                           "Better customer support">>,
             correct |-> 1] >>] >>],
     bloomberg_integration |-> [lessons |-> <<
        [id |-> "bbg_1", quiz |-> <<
            [options |-> <<"8080", "8194", "443", "3000">>,
             correct |-> 1] >>] >>]]

(***************************************************************************)
(* Inputs of the requests.                                                 *)
(***************************************************************************)
UserIds == {"default", "user123"}

ModuleIdInputs == {"gpu_fundamentals", "tco_modeling", "no_such_module"}

LessonIdInputs == {"gpu_1", "gpu_2", "tco_1", "no_such_lesson"}

AnswerValues == {-1, 1, 2, 4}

AnswerInputs == UNION {[1..n -> AnswerValues] : n \in 0..MaxAnswers}

(***************************************************************************)
(* TrainingService.get_lesson                                              *)
(***************************************************************************)
RECURSIVE FindLesson(_, _, _)
FindLesson(lessons, lesson_id, i) ==
    IF i > Len(lessons) THEN None
    ELSE IF lessons[i].id = lesson_id THEN lessons[i]
    ELSE FindLesson(lessons, lesson_id, i + 1)

AllLessons ==
    modules["gpu_fundamentals"].lessons \o modules["tco_modeling"].lessons
    \o modules["neocloud_economics"].lessons
    \o modules["bloomberg_integration"].lessons

\* A lookup that forgets to restrict the search to the named module.
get_lesson_any_module(module_id, lesson_id) ==
    IF module_id \notin DOMAIN modules THEN None
    ELSE FindLesson(AllLessons, lesson_id, 1)

get_lesson(module_id, lesson_id) ==
    IF module_id \notin DOMAIN modules THEN None
    ELSE FindLesson(modules[module_id].lessons, lesson_id, 1)

\* A length test that lets extra answers through (zip drops them).
AnswerCountTooFew(answers, quiz) == Len(answers) < Len(quiz)

AnswerCountMismatch(answers, quiz) == Len(answers) # Len(quiz)

(***************************************************************************)
(* TrainingService.submit_quiz: the scoring loop, the score, the progress  *)
(* key and the write of the attempt.                                       *)
(***************************************************************************)
IsCorrect(answer, question) == answer = question.correct

RECURSIVE CorrectCount(_, _, _)
CorrectCount(answers, quiz, i) ==
    IF i > Len(quiz) THEN 0
    ELSE (IF IsCorrect(answers[i], quiz[i]) THEN 1 ELSE 0)
         + CorrectCount(answers, quiz, i + 1)

\* A label that checks only the upper end, so that a negative index wraps
\* around to the end of the option list as Python's indexing does.
YourAnswerNoLowerCheck(answer, question) ==
    IF answer < Len(question.options)
    THEN IF answer >= 0
         THEN question.options[answer + 1]
         ELSE question.options[Len(question.options) + answer + 1]
    ELSE "Invalid"

YourAnswer(answer, question) ==
    IF 0 <= answer /\ answer < Len(question.options)
    THEN question.options[answer + 1]
    ELSE "Invalid"

QuizResults(answers, quiz) ==
    [i \in 1..Len(quiz) |->
        [your_answer |-> YourAnswer(answers[i], quiz[i]),
         correct_answer |-> quiz[i].options[quiz[i].correct + 1],
         is_correct |-> IsCorrect(answers[i], quiz[i])]]

\* A score computed with floor division.
ScoreFloorDiv(correct_count, quiz) ==
    IF Len(quiz) > 0
    THEN RInt((correct_count \div Len(quiz)) * 100)
    ELSE RInt(0)

Score(correct_count, quiz) ==
    IF Len(quiz) > 0
    THEN RMul(Rat(correct_count, Len(quiz)), RInt(100))
    ELSE RInt(0)

Passed(score) == RLeq(RInt(70), score)

\* A key without a separator between the two ids.
KeySeparatorNone == ""

KeySeparator == "_"

\* A key that leaves the module out.
ProgressKeyLessonOnly(module_id, lesson_id) == lesson_id

ProgressKey(module_id, lesson_id) == module_id \o KeySeparator \o lesson_id

\* A write that always starts the user's map afresh.
MapForFresh(progress, user_id) == <<>>

\* lines 406-407: the user's map, an empty one when the user has none.
MapFor(progress, user_id) ==
    IF user_id \in DOMAIN progress THEN progress[user_id] ELSE <<>>

\* A write that keeps the attempt already stored under the key.
StoreAttemptKeepFirst(progress, user_id, key, score) ==
    LET mine == MapFor(progress, user_id)
        entry == [score |-> score, completed |-> TRUE]
    IN  [u \in DOMAIN progress \cup {user_id} |->
            IF u = user_id
            THEN [k \in DOMAIN mine \cup {key} |->
                     IF k \in DOMAIN mine THEN mine[k] ELSE entry]
            ELSE progress[u]]

StoreAttempt(progress, user_id, key, score) ==
    LET mine == MapFor(progress, user_id)
        entry == [score |-> score, completed |-> TRUE]
    IN  [u \in DOMAIN progress \cup {user_id} |->
            IF u = user_id
            THEN [k \in DOMAIN mine \cup {key} |->
                     IF k = key THEN entry ELSE mine[k]]
            ELSE progress[u]]

SubmitCall(module_id, lesson_id, answers, user_id) ==
    [op |-> "submit_quiz", module_id |-> module_id, lesson_id |-> lesson_id,
     answers |-> answers, user_id |-> user_id]

\* The number of attempts stored, over all users.
RECURSIVE TotalEntries(_, _)
TotalEntries(progress, users) ==
    IF users = {} THEN 0
    ELSE LET u == CHOOSE x \in users : TRUE
         IN  Cardinality(DOMAIN progress[u]) + TotalEntries(progress, users \ {u})

NoHistory == [replaced |-> None, repeated |-> FALSE]

submit_quiz(module_id, lesson_id, answers, user_id) ==
    LET lesson == get_lesson(module_id, lesson_id)
    IN  /\ call.op = "none"
        /\ call' = SubmitCall(module_id, lesson_id, answers, user_id)
        /\ last_progress' = None
        /\ UNCHANGED other_services
        /\ IF lesson = None
           THEN /\ ret' = [error |-> "Lesson not found"]
                /\ UNCHANGED <<user_progress, submitted, history>>
           ELSE IF AnswerCountMismatch(answers, lesson.quiz)
           THEN /\ ret' = [error |-> "Answer count mismatch"]
                /\ UNCHANGED <<user_progress, submitted, history>>
           ELSE LET quiz == lesson.quiz
                    correct_count == CorrectCount(answers, quiz, 1)
                    score == Score(correct_count, quiz)
                    t == <<user_id, module_id, lesson_id>>
                IN  /\ user_progress' =
                          StoreAttempt(user_progress, user_id,
                                       ProgressKey(module_id, lesson_id), score)
                    /\ TotalEntries(user_progress', DOMAIN user_progress')
                          <= MaxEntries
                    /\ ret' = [score |-> score,
                               correct |-> correct_count,
                               total |-> Len(quiz),
                               results |-> QuizResults(answers, quiz),
                               passed |-> Passed(score)]
                    /\ submitted' =
                          [x \in DOMAIN submitted \cup {t} |->
                              IF x = t
                              THEN [score |-> score]
                              ELSE submitted[x]]
                    /\ history' =
                          [replaced |-> IF t \in DOMAIN submitted
                                        THEN submitted[t].score
                                        ELSE None,
                           repeated |-> FALSE]

(***************************************************************************)
(* TrainingService.get_user_progress                                       *)
(***************************************************************************)
RECURSIVE SumScores(_, _)
SumScores(progress, keys) ==
    IF keys = {} THEN RInt(0)
    ELSE LET k == CHOOSE x \in keys : TRUE
         IN  RAdd(progress[k].score, SumScores(progress, keys \ {k}))

RECURSIVE SumLessons(_)
SumLessons(ids) ==
    IF ids = {} THEN 0
    ELSE LET m == CHOOSE x \in ids : TRUE
         IN  Len(modules[m].lessons) + SumLessons(ids \ {m})

ProgressOf(progress_map, user_id) ==
    IF user_id \in DOMAIN progress_map THEN progress_map[user_id] ELSE <<>>

UserProgressResult(progress_map, user_id) ==
    LET progress == ProgressOf(progress_map, user_id)
        total_lessons == SumLessons(DOMAIN modules)
        completed_lessons == Cardinality(DOMAIN progress)
        avg_score == IF DOMAIN progress # {}
                     THEN RDiv(SumScores(progress, DOMAIN progress),
                               RInt(Cardinality(DOMAIN progress)))
                     ELSE RInt(0)
    IN  [user_id |-> user_id,
         completed_lessons |-> completed_lessons,
         total_lessons |-> total_lessons,
         completion_percent |->
             IF total_lessons # 0
             THEN RMul(Rat(completed_lessons, total_lessons), RInt(100))
             ELSE RInt(0),
         average_score |-> avg_score,
         lesson_details |-> progress]

\* A read that creates the user's map when it is missing (setdefault).
ProgressAfterSetDefault(progress_map, user_id) ==
    [u \in DOMAIN progress_map \cup {user_id} |-> ProgressOf(progress_map, u)]

\* self.user_progress.get(user_id, {}) leaves the mapping as it is.
ProgressAfterRead(progress_map, user_id) == progress_map

get_user_progress(user_id) ==
    /\ call.op = "none"
    /\ call' = [op |-> "get_user_progress", user_id |-> user_id]
    /\ ret' = UserProgressResult(user_progress, user_id)
    /\ user_progress' = ProgressAfterRead(user_progress, user_id)
    /\ last_progress' = [result |-> ret']
    /\ history' = [replaced |-> None,
                   repeated |-> /\ last_progress # None
                                /\ last_progress.result.user_id = user_id]
    /\ UNCHANGED <<submitted, other_services>>

(***************************************************************************)
(* AIAgentService._load_knowledge_base                                     *)
(***************************************************************************)
gpu_architectures ==
    [H100   |-> [memory |-> "80GB HBM3", tdp |-> 700,
                 fp16_tflops |-> 1979, price_estimate |-> 30000],
     H200   |-> [memory |-> "141GB HBM3e", tdp |-> 700,
                 fp16_tflops |-> 1979, price_estimate |-> 40000],
     MI300X |-> [memory |-> "192GB HBM3", tdp |-> 750,
                 fp16_tflops |-> 1307, price_estimate |-> 15000],
     B200   |-> [memory |-> "192GB HBM3e", tdp |-> 1000,
                 fp16_tflops |-> 4500, price_estimate |-> 40000]]

\* The order in which the dict literal lists the architectures, which is
\* the order .items() yields them in.
GpuOrder == <<"H100", "H200", "MI300X", "B200">>

tco_factors ==
    [power_cost_kwh |-> Rat(8, 100),
     pue |-> Rat(13, 10),
     cooling_overhead |-> Rat(15, 100),
     maintenance_percent |-> Rat(8, 100),
     depreciation_years |-> RInt(3),
     utilization_target |-> Rat(85, 100)]

ProviderOrder == <<"CoreWeave", "Lambda Labs", "Together AI", "Crusoe">>

neocloud_providers ==
    ("CoreWeave" :> [focus |-> "GPU cloud", gpu_types |-> <<"H100", "A100">>])
    @@ ("Lambda Labs" :> [focus |-> "ML cloud", gpu_types |-> <<"H100", "A100">>])
    @@ ("Together AI" :> [focus |-> "Inference", gpu_types |-> <<"H100">>])
    @@ ("Crusoe" :> [focus |-> "Clean energy", gpu_types |-> <<"H100", "A100">>])

(***************************************************************************)
(* Strings that are searched: tuples of characters.  str.lower().          *)
(***************************************************************************)
UpperChars ==
    <<"A","B","C","D","E","F","G","H","I","J","K","L","M","N","O","P","Q","R","S","T","U","V","W","X","Y","Z">>

LowerChars ==
    <<"a","b","c","d","e","f","g","h","i","j","k","l","m","n","o","p","q","r","s","t","u","v","w","x","y","z">>

LowerChar(c) ==
    IF \E i \in 1..Len(UpperChars) : UpperChars[i] = c
    THEN LowerChars[CHOOSE i \in 1..Len(UpperChars) : UpperChars[i] = c]
    ELSE c

\* A classifier input that is not lower-cased.
LowerNot(message) == message

Lower(message) == [i \in 1..Len(message) |-> LowerChar(message[i])]

\* Python's `word in text` on strings: word occurs as a substring of text.
Contains(text, word) ==
    \E i \in 1..(Len(text) - Len(word) + 1) :
        SubSeq(text, i, i + Len(word) - 1) = word

AnyWordIn(words, text) == \E k \in 1..Len(words) : Contains(text, words[k])

TcoWords ==
    << <<"t","c","o">>,
       <<"c","o","s","t">>,
       <<"e","x","p","e","n","s","e">>,
       <<"b","u","d","g","e","t">>,
       <<"p","r","i","c","i","n","g">> >>

ComparisonWords ==
    << <<"c","o","m","p","a","r","e">>,
       <<"v","s">>,
       <<"v","e","r","s","u","s">>,
       <<"d","i","f","f","e","r","e","n","c","e">>,
       <<"b","e","t","t","e","r">> >>

MarketWords ==
    << <<"m","a","r","k","e","t">>,
       <<"s","t","o","c","k">>,
       <<"p","r","i","c","e">>,
       <<"b","l","o","o","m","b","e","r","g">>,
       <<"e","q","u","i","t","y">> >>

NeocloudWords ==
    << <<"n","e","o","c","l","o","u","d">>,
       <<"c","o","r","e","w","e","a","v","e">>,
       <<"l","a","m","b","d","a">>,
       <<"t","o","g","e","t","h","e","r">>,
       <<"c","l","o","u","d"," ","p","r","o","v","i","d","e","r">> >>

(***************************************************************************)
(* AIAgentService._analyze_intent                                          *)
(***************************************************************************)
analyze_intent(message) ==
    LET message_lower == Lower(message)
    IN  IF AnyWordIn(TcoWords, message_lower) THEN "tco_calculation"
        ELSE IF AnyWordIn(ComparisonWords, message_lower) THEN "gpu_comparison"
        ELSE IF AnyWordIn(MarketWords, message_lower) THEN "market_data"
        ELSE IF AnyWordIn(NeocloudWords, message_lower) THEN "neocloud_analysis"
        ELSE "general"

(***************************************************************************)
(* Messages given to the classifier: the five messages of the spec's       *)
(* examples, and every message of 1..MaxWords words of Vocabulary joined   *)
(* by single spaces.                                                       *)
(***************************************************************************)
MsgTco ==
    <<"W","h","a","t","'","s"," ","t","h","e"," ","T","C","O"," ","f","o","r"," ","8"," ","G","P","U","s","?">>

MsgCompare ==
    <<"C","o","m","p","a","r","e"," ","H","1","0","0"," ","v","s"," ","M","I","3","0","0","X">>

MsgMarket ==
    <<"N","V","D","A"," ","s","t","o","c","k"," ","p","r","i","c","e">>

MsgNeocloud ==
    <<"T","e","l","l"," ","m","e"," ","a","b","o","u","t"," ","C","o","r","e","W","e","a","v","e">>

MsgHello ==
    <<"H","e","l","l","o">>

MsgTcoSixteen ==
    <<"T","C","O"," ","f","o","r"," ","1","6"," ","B","2","0","0"," ","G","P","U","s">>

Vocabulary ==
    << <<"T","C","O">>,
       <<"B","u","d","g","e","t">>,
       <<"C","o","m","p","a","r","e">>,
       <<"v","s">>,
       <<"S","t","o","c","k">>,
       <<"p","r","i","c","e">>,
       <<"C","o","r","e","W","e","a","v","e">>,
       <<"c","l","o","u","d">>,
       <<"p","r","o","v","i","d","e","r">>,
       <<"o","u","t","c","o","m","e">>,
       <<"c","a","n","v","a","s">>,
       <<"H","e","l","l","o">> >>

RECURSIVE JoinWords(_)
JoinWords(ws) ==
    IF Len(ws) = 1 THEN Vocabulary[ws[1]]
    ELSE Vocabulary[ws[1]] \o <<" ">> \o JoinWords(Tail(ws))

MessageInputs ==
    {MsgTco, MsgCompare, MsgMarket, MsgNeocloud, MsgHello}
    \cup {JoinWords(ws) :
            ws \in UNION {[1..n -> 1..Len(Vocabulary)] : n \in 1..MaxWords}}

AnalyzeIntent ==
    \E message \in MessageInputs :
        /\ call.op = "none"
        /\ call' = [op |-> "analyze_intent", message |-> message]
        /\ ret' = [intent |-> analyze_intent(message)]
        /\ UNCHANGED <<user_progress, submitted, last_progress, history,
                       other_services>>

(***************************************************************************)
(* Python dict.get(key, default) on a parameters mapping.                  *)
(***************************************************************************)
Get(params, key, default) ==
    IF key \in DOMAIN params THEN params[key] ELSE default

Raised(exception) == [raised |-> exception]

Inf == [inf |-> TRUE]

HoursPerYear == 8760

(***************************************************************************)
(* AIAgentService._calculate_custom_tco                                    *)
(***************************************************************************)
DefaultGpuPrice == 30000

DefaultTdp == 700

\* A total that forgets the number of years.
TotalTcoOneYear(capex, annual_power, annual_maintenance, years) ==
    RAdd(capex, RAdd(annual_power, annual_maintenance))

TotalTco(capex, annual_power, annual_maintenance, years) ==
    RAdd(capex, RMul(RAdd(annual_power, annual_maintenance), years))

calculate_custom_tco(params) ==
    LET gpu_type == Get(params, "gpu_type", "H100")
        num_gpus == Get(params, "num_gpus", RInt(8))
        power_rate == Get(params, "power_rate", Rat(8, 100))
        years == Get(params, "years", RInt(3))
        gpu_specs == Get(gpu_architectures, gpu_type, <<>>)
        gpu_price == RInt(Get(gpu_specs, "price_estimate", DefaultGpuPrice))
        tdp == RInt(Get(gpu_specs, "tdp", DefaultTdp))
        capex == RMul(gpu_price, num_gpus)
        annual_power ==
            RMul(RDiv(RMul(RMul(RMul(tdp, num_gpus), RInt(HoursPerYear)),
                           Rat(13, 10)),
                      RInt(1000)),
                 power_rate)
        annual_maintenance == RMul(capex, Rat(8, 100))
        total_tco == TotalTco(capex, annual_power, annual_maintenance, years)
        gpu_hours == RMul(RMul(num_gpus, RInt(HoursPerYear)), years)
    IN  IF gpu_hours.n = 0 THEN Raised("ZeroDivisionError")
        ELSE [gpu_type |-> gpu_type,
              num_gpus |-> num_gpus,
              capex |-> capex,
              annual_power |-> annual_power,
              annual_maintenance |-> annual_maintenance,
              total_tco |-> total_tco,
              tco_per_gpu_hour |-> RDiv(total_tco, gpu_hours)]

(***************************************************************************)
(* AIAgentService._calculate_roi                                           *)
(***************************************************************************)
\* A payback that treats a zero profit as a profit.
PaybackMonthsNonNegative(investment, annual_profit) ==
    IF RLeq(RInt(0), annual_profit)
    THEN RMul(RDiv(investment, annual_profit), RInt(12))
    ELSE Inf

\* A revenue that forgets the utilization.
AnnualRevenueFullUse(hourly_rate, num_gpus, utilization) ==
    RMul(RMul(hourly_rate, num_gpus), RInt(HoursPerYear))

AnnualRevenue(hourly_rate, num_gpus, utilization) ==
    RMul(RMul(RMul(hourly_rate, num_gpus), RInt(HoursPerYear)), utilization)

PaybackMonths(investment, annual_profit) ==
    IF RLess(RInt(0), annual_profit)
    THEN RMul(RDiv(investment, annual_profit), RInt(12))
    ELSE Inf

calculate_roi(params) ==
    LET investment == Get(params, "investment", RInt(240000))
        hourly_rate == Get(params, "hourly_rate", Rat(35, 10))
        utilization == Get(params, "utilization", Rat(85, 100))
        num_gpus == Get(params, "num_gpus", RInt(8))
        annual_revenue == AnnualRevenue(hourly_rate, num_gpus, utilization)
        annual_costs == RMul(investment, Rat(4, 10))
        annual_profit == RSub(annual_revenue, annual_costs)
    IN  IF investment.n = 0 THEN Raised("ZeroDivisionError")
        ELSE [investment |-> investment,
              annual_revenue |-> annual_revenue,
              annual_costs |-> annual_costs,
              annual_profit |-> annual_profit,
              roi_percent |-> RMul(RDiv(annual_profit, investment), RInt(100)),
              payback_months |-> PaybackMonths(investment, annual_profit)]

(***************************************************************************)
(* AIAgentService.run_scenario                                             *)
(***************************************************************************)
run_scenario(scenario_type, parameters) ==
    /\ call.op = "none"
    /\ call' = [op |-> "run_scenario", scenario_type |-> scenario_type,
                parameters |-> parameters]
    /\ ret' = IF scenario_type = "tco" THEN calculate_custom_tco(parameters)
              ELSE IF scenario_type = "roi" THEN calculate_roi(parameters)
              ELSE [error |-> "Unknown scenario type: " \o scenario_type]
    /\ UNCHANGED <<user_progress, submitted, last_progress, history,
                   other_services>>

(***************************************************************************)
(* Parameters of the scenarios.  An optional parameter is <<>> when the    *)
(* request leaves it out and <<v>> when the request gives v.               *)
(***************************************************************************)
Opt(S) == {<<>>} \cup {<<v>> : v \in S}

Present(keys, opts) == {k \in DOMAIN keys : opts[k] # <<>>}

MkParams(keys, opts) ==
    [name \in {keys[k] : k \in Present(keys, opts)} |->
        opts[CHOOSE k \in DOMAIN keys : keys[k] = name][1]]

TcoKeys == <<"gpu_type", "num_gpus", "power_rate", "years", "pue">>

RoiKeys == <<"investment", "hourly_rate", "utilization", "num_gpus">>

GpuTypeInputs == {"H100", "H200", "MI300X", "B200", "A100"}

CountInputs == {RInt(i) : i \in 0..MaxGpus} \cup {RInt(8)}

YearInputs == {RInt(i) : i \in 0..MaxYears}

PowerRateInputs == {RInt(0), Rat(12, 100)}

PueInputs == {Rat(13, 10), RInt(2)}

InvestmentInputs ==
    {RInt(0), RInt(21900), RInt(240000), RInt(1000000), RInt(-100000)}

HourlyRateInputs == {RInt(0), RInt(1), Rat(35, 10)}

UtilizationInputs == {RInt(0), RInt(1), Rat(85, 100)}

RunTco ==
    \E g \in Opt(GpuTypeInputs), n \in Opt(CountInputs),
       p \in Opt(PowerRateInputs), y \in Opt(YearInputs),
       e \in Opt(PueInputs) :
        run_scenario("tco", MkParams(TcoKeys, <<g, n, p, y, e>>))

RunRoi ==
    \E i \in Opt(InvestmentInputs), h \in Opt(HourlyRateInputs),
       u \in Opt(UtilizationInputs), n \in Opt(CountInputs) :
        run_scenario("roi", MkParams(RoiKeys, <<i, h, u, n>>))

RunOther ==
    \E scenario_type \in {"comparison", "forecast"} :
        run_scenario(scenario_type, <<>>)

(***************************************************************************)
(* AIAgentService.chat and its five generators.  A response text is the    *)
(* template it is built from together with the values formatted into it;   *)
(* the digit grouping of the "," format is not modelled.  round() and the  *)
(* ".0f" / ".2f" formats round to nearest, ties to even.                   *)
(***************************************************************************)
RoundHalfEven(r) ==
    LET q == r.n \div r.d
        rem == r.n % r.d
    IN  IF 2 * rem < r.d THEN q
        ELSE IF 2 * rem > r.d THEN q + 1
        ELSE IF q % 2 = 0 THEN q ELSE q + 1

Round2(r) == Rat(RoundHalfEven(RMul(r, RInt(100))), 100)

Format0(r) == RoundHalfEven(r)

handle_tco_query(message) ==
    LET factors == tco_factors
        gpu_price == RInt(30000)
        num_gpus == RInt(8)
        hours_per_year == RInt(8760)
        capex == RMul(gpu_price, num_gpus)
        power_cost ==
            RMul(RDiv(RMul(RMul(RMul(RInt(700), num_gpus), hours_per_year),
                           factors.pue),
                      RInt(1000)),
                 factors.power_cost_kwh)
        maintenance == RMul(capex, factors.maintenance_percent)
        total_tco ==
            RAdd(capex, RMul(RAdd(power_cost, maintenance),
                             factors.depreciation_years))
        tco_per_gpu_hour ==
            RDiv(total_tco,
                 RMul(RMul(num_gpus, hours_per_year), factors.depreciation_years))
    IN  [response |->
            [template |-> "tco",
             values |-> <<Format0(capex), Format0(power_cost),
                          factors.power_cost_kwh, factors.pue,
                          Format0(maintenance),
                          RMul(factors.maintenance_percent, RInt(100)),
                          Format0(total_tco), Round2(tco_per_gpu_hour),
                          factors.depreciation_years,
                          RMul(factors.utilization_target, RInt(100))>>],
         data |-> [capex |-> capex,
                   annual_power |-> power_cost,
                   annual_maintenance |-> maintenance,
                   total_tco |-> total_tco,
                   cost_per_gpu_hour |-> tco_per_gpu_hour],
         intent |-> "tco_calculation"]

ComparisonRow(name) ==
    LET specs == gpu_architectures[name]
    IN  [name |-> name,
         memory |-> specs.memory,
         tdp |-> specs.tdp,
         fp16_tflops |-> specs.fp16_tflops,
         price |-> specs.price_estimate,
         perf_per_dollar |->
            Round2(RDiv(RInt(specs.fp16_tflops),
                        RDiv(RInt(specs.price_estimate), RInt(1000))))]

\* An ascending sort: the row with the smaller key goes first.
GoesBeforeAscending(a, b) == RLess(a.perf_per_dollar, b.perf_per_dollar)

\* list.sort(key=perf_per_dollar, reverse=True): a moves ahead of b only
\* when its key is strictly larger, so equal keys keep their order.
GoesBefore(a, b) == RLess(b.perf_per_dollar, a.perf_per_dollar)

RECURSIVE InsertRow(_, _)
InsertRow(row, sorted) ==
    IF sorted = <<>> THEN <<row>>
    ELSE IF GoesBefore(row, Head(sorted)) THEN <<row>> \o sorted
    ELSE <<Head(sorted)>> \o InsertRow(row, Tail(sorted))

RECURSIVE SortRows(_, _)
SortRows(rows, sorted) ==
    IF rows = <<>> THEN sorted
    ELSE SortRows(Tail(rows), InsertRow(Head(rows), sorted))

handle_gpu_comparison(message) ==
    LET comparison_table ==
            SortRows([i \in 1..Len(GpuOrder) |-> ComparisonRow(GpuOrder[i])],
                     <<>>)
    IN  [response |-> [template |-> "gpu_comparison",
                       values |-> comparison_table],
         data |-> comparison_table,
         intent |-> "gpu_comparison"]

handle_market_query(message) ==
    [response |-> [template |-> "market", values |-> <<>>],
     data |-> [gpu_tickers |-> <<"NVDA", "AMD", "INTC", "TSM", "AVGO">>,
               datacenter_tickers |-> <<"EQIX", "DLR", "AMT", "CCI">>],
     intent |-> "market_data"]

handle_neocloud_query(message) ==
    [response |->
        [template |-> "neocloud",
         values |-> [i \in 1..Len(ProviderOrder) |->
                        <<ProviderOrder[i],
                          neocloud_providers[ProviderOrder[i]].focus,
                          neocloud_providers[ProviderOrder[i]].gpu_types>>]],
     data |-> neocloud_providers,
     intent |-> "neocloud_analysis"]

\* A general answer that quotes the message back.
handle_general_query_quoting(message) ==
    [response |-> [template |-> "general", values |-> <<message>>],
     data |-> <<>>,
     intent |-> "general"]

handle_general_query(message) ==
    [response |-> [template |-> "general", values |-> <<>>],
     data |-> <<>>,
     intent |-> "general"]

ChatResult(message, context) ==
    LET intent == analyze_intent(message)
    IN  IF intent = "tco_calculation" THEN handle_tco_query(message)
        ELSE IF intent = "gpu_comparison" THEN handle_gpu_comparison(message)
        ELSE IF intent = "market_data" THEN handle_market_query(message)
        ELSE IF intent = "neocloud_analysis" THEN handle_neocloud_query(message)
        ELSE handle_general_query(message)

ExampleMessages == {MsgTco, MsgCompare, MsgMarket, MsgNeocloud, MsgHello}

\* chat_seen keeps, for each intent, the first result chat returned with
\* that intent, and whether that call was an example message without
\* context (kept for the properties).
chat(message, context) ==
    /\ call.op = "none"
    /\ call' = [op |-> "chat", message |-> message, context |-> context]
    /\ ret' = ChatResult(message, context)
    /\ chat_seen' =
          IF ret'.intent \in DOMAIN chat_seen THEN chat_seen
          ELSE chat_seen @@
               (ret'.intent :>
                   [result |-> ret',
                    plain |-> message \in ExampleMessages /\ context = <<>>])
    /\ UNCHANGED <<user_progress, submitted, last_progress, history,
                   bloomberg, threads, routes>>

ContextInputs ==
    {<<>>,
     <<[role |-> "user", content |-> "Use 64 GPUs at $0.20/kWh"],
       [role |-> "assistant", content |-> "Noted."]>>}

ChatMessageInputs ==
    ExampleMessages \cup {MsgTcoSixteen}
    \cup {Vocabulary[i] : i \in 1..Len(Vocabulary)}

Chat ==
    \E message \in ChatMessageInputs,
       context \in ContextInputs :
        chat(message, context)

(***************************************************************************)
(* TrainingService.submit_quiz run by the request threads of the server    *)
(* (src/app.py runs Flask's threaded server over one shared service).      *)
(* Lines 366-403 touch only the call's own locals and the read-only        *)
(* catalog, so they are one step; lines 406, 407 and 408 read or write the *)
(* shared user_progress and are one step each.  threads maps a thread to   *)
(* its position and the locals it still needs.                             *)
(***************************************************************************)
Threads == {"t1", "t2"}

Others ==
    <<call, ret, submitted, last_progress, history, bloomberg, chat_seen, routes>>

ThreadBegin(t, module_id, lesson_id, answers, user_id) ==
    LET lesson == get_lesson(module_id, lesson_id)
        failed == lesson = None \/ AnswerCountMismatch(answers, lesson.quiz)
        locals ==
            IF failed
            THEN [pc |-> "done", ok |-> FALSE, user_id |-> user_id,
                  key |-> ProgressKey(module_id, lesson_id), score |-> None]
            ELSE [pc |-> "test", ok |-> TRUE, user_id |-> user_id,
                  key |-> ProgressKey(module_id, lesson_id),
                  score |-> Score(CorrectCount(answers, lesson.quiz, 1),
                                  lesson.quiz)]
    IN  /\ t \notin DOMAIN threads
        /\ threads' = [x \in DOMAIN threads \cup {t} |->
                          IF x = t THEN locals ELSE threads[x]]
        /\ UNCHANGED <<user_progress, Others>>

\* line 406: if user_id not in self.user_progress
ThreadTest(t) ==
    /\ t \in DOMAIN threads
    /\ threads[t].pc = "test"
    /\ threads' = [threads EXCEPT ![t].pc =
                      IF threads[t].user_id \notin DOMAIN user_progress
                      THEN "create" ELSE "write"]
    /\ UNCHANGED <<user_progress, Others>>

\* line 407: self.user_progress[user_id] = {}
ThreadCreate(t) ==
    /\ t \in DOMAIN threads
    /\ threads[t].pc = "create"
    /\ user_progress' =
          [u \in DOMAIN user_progress \cup {threads[t].user_id} |->
              IF u = threads[t].user_id THEN <<>> ELSE user_progress[u]]
    /\ threads' = [threads EXCEPT ![t].pc = "write"]
    /\ UNCHANGED Others

\* lines 408-411: self.user_progress[user_id][key] = {...}, then the return
ThreadWrite(t) ==
    /\ t \in DOMAIN threads
    /\ threads[t].pc = "write"
    /\ user_progress' =
          StoreAttempt(user_progress, threads[t].user_id, threads[t].key,
                       threads[t].score)
    /\ threads' = [threads EXCEPT ![t].pc = "done"]
    /\ UNCHANGED Others

Begin ==
    \E t \in Threads, module_id \in ModuleIdInputs,
       lesson_id \in LessonIdInputs, answers \in AnswerInputs,
       user_id \in UserIds :
        ThreadBegin(t, module_id, lesson_id, answers, user_id)

Test == \E t \in Threads : ThreadTest(t)

Create == \E t \in Threads : ThreadCreate(t)

Write == \E t \in Threads : ThreadWrite(t)

(***************************************************************************)
(* The training routes and the dashboard overview, run by the request      *)
(* threads of the server (src/app/api/training_routes.py,                  *)
(* src/app/api/dashboard_routes.py).  routes holds                         *)
(*   training_service  the module global _training_service: 0 for None,    *)
(*                     else the number of a TrainingService instance,      *)
(*   instances         the user_progress of every instance constructed by  *)
(*                     get_training_service,                               *)
(*   requests          for each thread its position and locals,            *)
(*   acked             the (user, key) of every submission a route has     *)
(*                     answered with success (kept for the properties).    *)
(* get_training_service is three steps (lines 13, 14, 15); the call on the *)
(* service a route has obtained is one step.                               *)
(***************************************************************************)
NoRoutes ==
    [training_service |-> 0, instances |-> <<>>, requests |-> <<>>,
     acked |-> {}]

Idle(t) ==
    IF t \in DOMAIN routes.requests THEN routes.requests[t].pc = "done" ELSE TRUE

WithRequest(t, locals) ==
    [x \in DOMAIN routes.requests \cup {t} |->
        IF x = t THEN locals ELSE routes.requests[x]]

AckedKeys(user_id) == {a[2] : a \in {b \in routes.acked : b[1] = user_id}}

NotRoutes ==
    <<user_progress, call, ret, submitted, last_progress, history,
      bloomberg, chat_seen, threads>>

\* The locals a request no longer reads are dropped from its record.
Answer(route, expect, result) ==
    [pc |-> "done", route |-> route, user_id |-> "", attempt |-> None,
     service |-> 0, expect |-> expect, result |-> result]

\* training_routes.submit_quiz, lines 59-71: the request is read.  What
\* submit_quiz will compute from the arguments alone (lines 379-403) is
\* kept in attempt: None for a refusal, else the key and the score.
route_submit_quiz(t, module_id, lesson_id, answers, user_id) ==
    LET lesson == get_lesson(module_id, lesson_id)
        failed == lesson = None \/ AnswerCountMismatch(answers, lesson.quiz)
    IN  /\ Idle(t)
        /\ routes' = [routes EXCEPT !.requests =
              WithRequest(t, [pc |-> "test", route |-> "submit_quiz",
                              user_id |-> user_id,
                              attempt |->
                                  IF failed THEN None
                                  ELSE [key |-> ProgressKey(module_id, lesson_id),
                                        score |-> Score(CorrectCount(answers,
                                                            lesson.quiz, 1),
                                                        lesson.quiz)],
                              service |-> 0, expect |-> {}, result |-> None])]
        /\ UNCHANGED NotRoutes

\* training_routes.get_progress, lines 85-88: the request is read.
route_get_progress(t, user_id) ==
    /\ Idle(t)
    /\ routes' = [routes EXCEPT !.requests =
          WithRequest(t, [pc |-> "test", route |-> "get_progress",
                          user_id |-> user_id, attempt |-> None,
                          service |-> 0, expect |-> AckedKeys(user_id),
                          result |-> None])]
    /\ UNCHANGED NotRoutes

\* line 13: if _training_service is None
get_training_service_test(t) ==
    /\ t \in DOMAIN routes.requests
    /\ routes.requests[t].pc = "test"
    /\ routes' = [routes EXCEPT !.requests[t].pc =
                     IF routes.training_service = 0 THEN "create" ELSE "return"]
    /\ UNCHANGED NotRoutes

\* line 14: _training_service = TrainingService()
get_training_service_create(t) ==
    /\ t \in DOMAIN routes.requests
    /\ routes.requests[t].pc = "create"
    /\ routes' = [routes EXCEPT !.instances = Append(@, <<>>),
                                !.training_service = Len(routes.instances) + 1,
                                !.requests[t].pc = "return"]
    /\ UNCHANGED NotRoutes

\* line 15: return _training_service
get_training_service_return(t) ==
    /\ t \in DOMAIN routes.requests
    /\ routes.requests[t].pc = "return"
    /\ routes' = [routes EXCEPT !.requests[t].service = routes.training_service,
                                !.requests[t].pc = "call"]
    /\ UNCHANGED NotRoutes

\* lines 74-82 and 90-96: the call on the service, and the answer.
route_call(t) ==
    /\ t \in DOMAIN routes.requests
    /\ routes.requests[t].pc = "call"
    /\ LET r == routes.requests[t]
           progress == routes.instances[r.service]
       IN  IF r.route = "get_progress"
           THEN routes' = [routes EXCEPT !.requests[t] =
                   Answer("get_progress", r.expect,
                          UserProgressResult(progress, r.user_id))]
           ELSE IF r.attempt = None
           THEN routes' = [routes EXCEPT !.requests[t] =
                   Answer("submit_quiz", {}, [success |-> FALSE])]
           ELSE routes' = [routes EXCEPT
                   !.requests[t] =
                       Answer("submit_quiz", {}, [success |-> TRUE]),
                   !.acked = @ \cup {<<r.user_id, r.attempt.key>>},
                   !.instances[r.service] =
                       StoreAttempt(progress, r.user_id, r.attempt.key,
                                    r.attempt.score)]
    /\ UNCHANGED NotRoutes

\* dashboard_routes.overview: a TrainingService constructed for the request
\* (line 16), whose user_progress is empty, is asked for the progress of
\* "default" (line 25).
overview(t) ==
    /\ Idle(t)
    /\ routes' = [routes EXCEPT !.requests =
          WithRequest(t, Answer("overview", AckedKeys("default"),
                                UserProgressResult(<<>>, "default")))]
    /\ UNCHANGED NotRoutes

RouteLessonInputs == {"gpu_2", "no_such_lesson"}

\* For gpu_2: the right answer, a wrong one, and too few answers.
RouteAnswerInputs == {<<1>>, <<2>>, <<>>}

RouteSubmitQuiz ==
    \E t \in Threads, lesson_id \in RouteLessonInputs,
       answers \in RouteAnswerInputs, user_id \in UserIds :
        route_submit_quiz(t, "gpu_fundamentals", lesson_id, answers, user_id)

RouteGetProgress ==
    \E t \in Threads, user_id \in UserIds : route_get_progress(t, user_id)

GetTrainingService ==
    \E t \in Threads :
        \/ get_training_service_test(t)
        \/ get_training_service_create(t)
        \/ get_training_service_return(t)

RouteCall == \E t \in Threads : route_call(t)

Overview == \E t \in Threads : overview(t)

(***************************************************************************)
(* BloombergService (src/app/services/bloomberg_service.py).  The variable *)
(* bloomberg is None until the service is constructed; then it holds       *)
(*   blpapi_available  whether `import blpapi` succeeded (live mode),      *)
(*   connected         self._connected,                                    *)
(*   session           whether self.session holds a session object,        *)
(*   last_op, prev_op  the last two of connect / disconnect, and for a     *)
(*                     connect what it returned (kept for the properties). *)
(* The blpapi library is outside the repository: each of its calls may     *)
(* return either way or raise.                                             *)
(***************************************************************************)
BloombergService(blpapi_available) ==
    /\ call.op = "none"
    /\ bloomberg = None
    /\ bloomberg' = [blpapi_available |-> blpapi_available,
                     connected |-> FALSE,
                     session |-> FALSE,
                     last_op |-> "none",
                     prev_op |-> "none"]
    /\ UNCHANGED <<user_progress, call, ret, submitted, last_progress, history,
                   chat_seen, threads, routes>>

HandshakeOutcomes ==
    {"create_raises", "start_false", "start_raises",
     "open_false", "open_raises", "ok"}

\* A handshake whose exceptions are not caught.
HandshakeResultUncaught(outcome) ==
    IF outcome = "ok" THEN [value |-> TRUE]
    ELSE IF outcome \in {"start_false", "open_false"} THEN [value |-> FALSE]
    ELSE Raised("Exception")

\* connect, live mode: what the try / except returns for each outcome.
HandshakeResult(outcome) ==
    IF outcome = "ok" THEN [value |-> TRUE] ELSE [value |-> FALSE]

Logged(bb, op) == [bb EXCEPT !.last_op = op, !.prev_op = bb.last_op]

connect ==
    /\ call.op = "none"
    /\ bloomberg # None
    /\ IF ~bloomberg.blpapi_available
       THEN /\ call' = [op |-> "connect", outcome |-> "mock"]
            /\ ret' = [value |-> TRUE]
            /\ bloomberg' = Logged([bloomberg EXCEPT !.connected = TRUE],
                                   "connect_true")
       ELSE \E outcome \in HandshakeOutcomes :
                /\ call' = [op |-> "connect", outcome |-> outcome]
                /\ ret' = HandshakeResult(outcome)
                /\ bloomberg' =
                      Logged([bloomberg EXCEPT
                                 !.session = IF outcome = "create_raises"
                                             THEN @ ELSE TRUE,
                                 !.connected = IF outcome = "ok"
                                               THEN TRUE ELSE @],
                             IF outcome = "ok" THEN "connect_true"
                             ELSE "connect_false")
    /\ UNCHANGED <<user_progress, submitted, last_progress, history,
                   chat_seen, threads, routes>>

\* A disconnect that clears the flag only when there is a session to stop.
AfterDisconnectWithSession(bb) ==
    IF bb.session THEN [bb EXCEPT !.connected = FALSE] ELSE bb

AfterDisconnect(bb) == [bb EXCEPT !.connected = FALSE]

disconnect ==
    /\ call.op = "none"
    /\ bloomberg # None
    /\ call' = [op |-> "disconnect"]
    /\ ret' = None
    /\ bloomberg' = Logged(AfterDisconnect(bloomberg), "disconnect")
    /\ UNCHANGED <<user_progress, submitted, last_progress, history,
                   chat_seen, threads, routes>>

is_connected(bb) == bb.connected

\* A connection test made in live mode only.
RefusesLiveOnly(bb) == bb.blpapi_available /\ ~bb.connected

\* get_reference_data / get_historical_data: `if not self._connected`.
Refuses(bb) == ~bb.connected

(***************************************************************************)
(* BloombergService._get_mock_reference_data                               *)
(***************************************************************************)
mock_data ==
    ("NVDA US Equity" :>
        [PX_LAST |-> "875.28", CHG_PCT_1D |-> "2.34",
         CUR_MKT_CAP |-> "2150000000000", PE_RATIO |-> "65.2",
         BEST_EPS_1YR |-> "13.42", NAME |-> "NVIDIA Corp"])
    @@ ("AMD US Equity" :>
        [PX_LAST |-> "178.45", CHG_PCT_1D |-> "1.82",
         CUR_MKT_CAP |-> "288000000000", PE_RATIO |-> "48.7",
         BEST_EPS_1YR |-> "3.66", NAME |-> "Advanced Micro Devices Inc"])
    @@ ("INTC US Equity" :>
        [PX_LAST |-> "31.24", CHG_PCT_1D |-> "-0.45",
         CUR_MKT_CAP |-> "132000000000", PE_RATIO |-> "32.1",
         BEST_EPS_1YR |-> "0.97", NAME |-> "Intel Corp"])
    @@ ("TSM US Equity" :>
        [PX_LAST |-> "142.67", CHG_PCT_1D |-> "1.12",
         CUR_MKT_CAP |-> "740000000000", PE_RATIO |-> "24.8",
         BEST_EPS_1YR |-> "5.75",
         NAME |-> "Taiwan Semiconductor Manufacturing Co Ltd"])
    @@ ("AVGO US Equity" :>
        [PX_LAST |-> "1324.56", CHG_PCT_1D |-> "0.89",
         CUR_MKT_CAP |-> "615000000000", PE_RATIO |-> "35.6",
         BEST_EPS_1YR |-> "37.21", NAME |-> "Broadcom Inc"])
    @@ ("EQIX US Equity" :>
        [PX_LAST |-> "812.34", DVD_YLD |-> "2.1",
         FUNDS_FROM_OPS |-> "32.45", CUR_MKT_CAP |-> "76000000000",
         NAME |-> "Equinix Inc"])
    @@ ("DLR US Equity" :>
        [PX_LAST |-> "142.89", DVD_YLD |-> "3.4",
         FUNDS_FROM_OPS |-> "6.78", CUR_MKT_CAP |-> "44000000000",
         NAME |-> "Digital Realty Trust Inc"])

Elements(list) == {list[i] : i \in 1..Len(list)}

\* A lookup that leaves out the fields the ticker does not have.
get_mock_reference_data_known_fields(securities, fields) ==
    [security \in Elements(securities) \cap DOMAIN mock_data |->
        [field \in Elements(fields) \cap DOMAIN mock_data[security] |->
            mock_data[security][field]]]

get_mock_reference_data(securities, fields) ==
    [security \in Elements(securities) \cap DOMAIN mock_data |->
        [field \in Elements(fields) |-> Get(mock_data[security], field, "N/A")]]

(***************************************************************************)
(* BloombergService._get_mock_historical_data.  A date argument is the     *)
(* number whose digits are its "%Y%m%d" text (20240127); inside the walk a *)
(* datetime is a day number, day d being d days after Monday 2024-01-01,   *)
(* so that its weekday() is d % 7 and adding timedelta(days=1) adds 1; a  *)
(* point's date is the <<year, month, day>> of its "%Y-%m-%d" text.  The   *)
(* dates modelled are those of 2024.  The pseudo-random price and volume   *)
(* are not modelled: a point records which fields carry a value.           *)
(***************************************************************************)
MonthStarts == <<0, 31, 60, 91, 121, 152, 182, 213, 244, 274, 305, 335>>

strptime(text) ==
    LET month == (text \div 100) % 100
        day == text % 100
    IN  MonthStarts[month] + day - 1

MonthOf(current) ==
    CHOOSE m \in 1..12 :
        /\ MonthStarts[m] <= current
        /\ (m = 12 \/ current < MonthStarts[m + 1])

strftime(current) ==
    <<2024, MonthOf(current), current - MonthStarts[MonthOf(current)] + 1>>

\* A weekday() that counts from Sunday.
WeekdayFromSunday(day) == (day + 1) % 7

Weekday(day) == day % 7

MockPoint(day, fields) ==
    [k \in {"date"} \cup (Elements(fields) \cap {"PX_LAST", "PX_VOLUME"}) |->
        IF k = "date" THEN strftime(day)
        ELSE IF k = "PX_LAST" THEN "price" ELSE "volume"]

RECURSIVE MockWalk(_, _, _)
MockWalk(fields, current, end) ==
    IF current > end THEN <<>>
    ELSE (IF Weekday(current) < 5 THEN <<MockPoint(current, fields)>> ELSE <<>>)
         \o MockWalk(fields, current + 1, end)

get_mock_historical_data(security, fields, start_date, end_date) ==
    MockWalk(fields, strptime(start_date), strptime(end_date))

(***************************************************************************)
(* BloombergService.get_reference_data / get_historical_data.  In live     *)
(* mode the answer comes from the data feed: some result, or an exception  *)
(* that is raised again.                                                   *)
(***************************************************************************)
LiveAnswers == {[live |-> TRUE], Raised("Exception")}

get_reference_data(securities, fields) ==
    /\ call.op = "none"
    /\ bloomberg # None
    /\ call' = [op |-> "get_reference_data", securities |-> securities,
                fields |-> fields]
    /\ IF Refuses(bloomberg)
       THEN ret' = Raised("ConnectionError")
       ELSE IF ~bloomberg.blpapi_available
       THEN ret' = get_mock_reference_data(securities, fields)
       ELSE ret' \in LiveAnswers
    /\ UNCHANGED <<user_progress, submitted, last_progress, history,
                   other_services>>

get_historical_data(security, fields, start_date, end_date) ==
    /\ call.op = "none"
    /\ bloomberg # None
    /\ call' = [op |-> "get_historical_data", security |-> security,
                fields |-> fields, start_date |-> start_date,
                end_date |-> end_date]
    /\ IF Refuses(bloomberg)
       THEN ret' = Raised("ConnectionError")
       ELSE IF ~bloomberg.blpapi_available
       THEN ret' = [points |-> get_mock_historical_data(security, fields,
                                                        start_date, end_date)]
       ELSE ret' \in LiveAnswers
    /\ UNCHANGED <<user_progress, submitted, last_progress, history,
                   other_services>>

SecurityInputs == {"NVDA US Equity", "EQIX US Equity", "XXXX US Equity"}

FieldInputs == {"PX_LAST", "DVD_YLD", "NO_SUCH_FIELD"}

HistoryFieldInputs == {"PX_LAST", "PX_VOLUME", "NO_SUCH_FIELD"}

HistorySecurityInputs == {"NVDA US Equity", "XXXX US Equity"}

ListsOf(S, n) == UNION {[1..k -> S] : k \in 0..n}

NewBloombergService == \E available \in BOOLEAN : BloombergService(available)

GetReferenceData ==
    \E securities \in ListsOf(SecurityInputs, MaxSecurities),
       fields \in ListsOf(FieldInputs, MaxFields) :
        get_reference_data(securities, fields)

\* Saturday 2024-01-27 and the MaxDay days after it.
DateInputs ==
    {strftime(d)[1] * 10000 + strftime(d)[2] * 100 + strftime(d)[3] :
        d \in strptime(20240127)..(strptime(20240127) + MaxDay)}

GetHistoricalData ==
    \E security \in HistorySecurityInputs,
       fields \in ListsOf(HistoryFieldInputs, MaxFields),
       start_date \in DateInputs, end_date \in DateInputs :
        get_historical_data(security, fields, start_date, end_date)

(***************************************************************************)
(* The route hands the result to the client: training_routes.py            *)
(* submit_quiz / get_progress return jsonify(...).                         *)
(***************************************************************************)
Respond ==
    /\ call.op # "none"
    /\ call' = [op |-> "none"]
    /\ ret' = None
    /\ history' = NoHistory
    /\ UNCHANGED <<user_progress, submitted, last_progress, other_services>>

Init ==
    /\ user_progress = <<>>
    /\ call = [op |-> "none"]
    /\ ret = None
    /\ submitted = <<>>
    /\ last_progress = None
    /\ history = NoHistory
    /\ bloomberg = None
    /\ chat_seen = <<>>
    /\ threads = <<>>
    /\ routes = NoRoutes

SubmitQuiz ==
    \E module_id \in ModuleIdInputs, lesson_id \in LessonIdInputs,
       answers \in AnswerInputs, user_id \in UserIds :
        submit_quiz(module_id, lesson_id, answers, user_id)

GetUserProgress == \E user_id \in UserIds : get_user_progress(user_id)

Next == SubmitQuiz \/ GetUserProgress \/ Respond

Spec == Init /\ [][Next]_vars

NextAI == AnalyzeIntent \/ RunTco \/ RunRoi \/ RunOther \/ Respond

SpecAI == Init /\ [][NextAI]_vars

NextThreads == Begin \/ Test \/ Create \/ Write

SpecThreads == Init /\ [][NextThreads]_vars

NextRoutes ==
    RouteSubmitQuiz \/ RouteGetProgress \/ GetTrainingService \/ RouteCall
    \/ Overview

SpecRoutes == Init /\ [][NextRoutes]_vars

NextChat == Chat \/ Respond

SpecChat == Init /\ [][NextChat]_vars

NextBloomberg ==
    \/ NewBloombergService \/ connect \/ disconnect
    \/ GetReferenceData \/ GetHistoricalData \/ Respond

SpecBloomberg == Init /\ [][NextBloomberg]_vars

(***************************************************************************)
(* Properties of the Progress Tracker, checked under Spec.                 *)
(***************************************************************************)
IsSubmit(c) == c.op = "submit_quiz"

Succeeded(r) == "score" \in DOMAIN r

\* The lesson a submit call names, looked up in the catalog by hand.
LessonIndexes(c) ==
    IF c.module_id \in DOMAIN modules
    THEN {i \in 1..Len(modules[c.module_id].lessons) :
             modules[c.module_id].lessons[i].id = c.lesson_id}
    ELSE {}

Resolves(c) == LessonIndexes(c) # {}

QuizOf(c) ==
    modules[c.module_id].lessons[CHOOSE i \in LessonIndexes(c) : TRUE].quiz

StoredScore(progress_map, c) ==
    progress_map[c.user_id][ProgressKey(c.module_id, c.lesson_id)].score

HasStored(progress_map, c) ==
    /\ c.user_id \in DOMAIN progress_map
    /\ ProgressKey(c.module_id, c.lesson_id) \in DOMAIN progress_map[c.user_id]

AllCorrect(c) == \A i \in 1..Len(QuizOf(c)) : c.answers[i] = QuizOf(c)[i].correct

AllWrong(c) == \A i \in 1..Len(QuizOf(c)) : c.answers[i] # QuizOf(c)[i].correct

\* C1: after any sequence of submit_quiz calls, user_progress holds exactly
\* one attempt for every (user, module, lesson) that was submitted with
\* success and none else, its score is the score of the most recent such
\* submission, an all-correct submission stores 100 (passed) and an
\* all-wrong one stores 0 (not passed).
C1_LatestAttemptOnly ==
    /\ \A t \in DOMAIN submitted :
          /\ t[1] \in DOMAIN user_progress
          /\ ProgressKey(t[2], t[3]) \in DOMAIN user_progress[t[1]]
          /\ user_progress[t[1]][ProgressKey(t[2], t[3])].score = submitted[t].score
    /\ \A u \in DOMAIN user_progress :
          Cardinality(DOMAIN user_progress[u])
              = Cardinality({t \in DOMAIN submitted : t[1] = u})
    /\ (IsSubmit(call) /\ Succeeded(ret)) =>
          /\ AllCorrect(call) =>
                /\ ret.score = RInt(100) /\ ret.passed
                /\ StoredScore(user_progress, call) = RInt(100)
          /\ AllWrong(call) =>
                /\ ret.score = RInt(0) /\ ~ret.passed
                /\ StoredScore(user_progress, call) = RInt(0)

\* C1 witness: a lesson submitted all-correct (100) and then resubmitted
\* all-wrong, after which the stored score is 0.
C1_Witness ==
    /\ IsSubmit(call) /\ Succeeded(ret) /\ AllWrong(call)
    /\ LET t == <<call.user_id, call.module_id, call.lesson_id>>
       IN  /\ t \in DOMAIN submitted
           /\ history.replaced = RInt(100)
           /\ submitted[t].score = RInt(0)
           /\ StoredScore(user_progress, call) = RInt(0)
           /\ Cardinality(DOMAIN user_progress[call.user_id]) = 1

\* C2: submit_quiz returns "Lesson not found" whenever the module id is not
\* in the catalog or the lesson id is not a lesson of that module, whatever
\* the answers and the user, and user_progress is then left as it was.
C2_LessonNotFound ==
    [][(call.op = "none" /\ IsSubmit(call') /\ ~Resolves(call')) =>
          /\ ret' = [error |-> "Lesson not found"]
          /\ user_progress' = user_progress]_vars

\* C2 witness: a lesson of another module is named, with the right number
\* of answers for it, by a user who has progress: the call fails.
C2_Witness ==
    /\ IsSubmit(call)
    /\ call.module_id = "gpu_fundamentals" /\ call.lesson_id = "tco_1"
    /\ Len(call.answers) = 2
    /\ call.user_id \in DOMAIN user_progress
    /\ ret = [error |-> "Lesson not found"]

\* C3: for a lesson that resolves, submit_quiz returns "Answer count
\* mismatch" exactly when the number of answers differs from the number of
\* quiz questions, and user_progress is then left as it was.
C3_AnswerCountMismatch ==
    [][(call.op = "none" /\ IsSubmit(call') /\ Resolves(call')) =>
          /\ (ret' = [error |-> "Answer count mismatch"])
                <=> (Len(call'.answers) # Len(QuizOf(call')))
          /\ (Len(call'.answers) # Len(QuizOf(call')))
                => user_progress' = user_progress]_vars

\* C3 witness: too many answers for a lesson whose attempt is stored; the
\* call fails and the stored score is still the one submitted before.
C3_Witness ==
    /\ IsSubmit(call) /\ Resolves(call)
    /\ Len(call.answers) > Len(QuizOf(call))
    /\ ret = [error |-> "Answer count mismatch"]
    /\ HasStored(user_progress, call)
    /\ StoredScore(user_progress, call)
          = submitted[<<call.user_id, call.module_id, call.lesson_id>>].score

\* C4: for an answer list of the right length submit_quiz succeeds and
\* reports correct = the number of positions whose index equals the
\* question's correct index, score = 100 * correct / total (0 for an empty
\* quiz), passed exactly when score >= 70, and stores the returned score.
C4_Scoring ==
    (IsSubmit(call) /\ Resolves(call) /\ Len(call.answers) = Len(QuizOf(call))) =>
        LET quiz == QuizOf(call)
            hits == Cardinality({i \in 1..Len(quiz) :
                                    call.answers[i] = quiz[i].correct})
        IN  /\ Succeeded(ret)
            /\ ret.correct = hits
            /\ ret.total = Len(quiz)
            /\ ret.score.n * ret.total = 100 * hits * ret.score.d
            /\ (ret.total = 0 => ret.score = RInt(0))
            /\ ret.passed <=> (ret.score.n >= 70 * ret.score.d)
            /\ StoredScore(user_progress, call) = ret.score

\* C4 witness: one of two answers is right: score 50, not passed.
C4_Witness ==
    /\ IsSubmit(call) /\ Succeeded(ret)
    /\ ret.correct = 1 /\ ret.total = 2
    /\ ret.score = RInt(50) /\ ~ret.passed
    /\ StoredScore(user_progress, call) = RInt(50)

\* C5: an answer index outside 0..len(options)-1 never makes submit_quiz
\* fail; that question is counted incorrect and labelled "Invalid", and an
\* in-range index is labelled with the option text at that index.
C5_InvalidAnswerLabel ==
    (IsSubmit(call) /\ Resolves(call) /\ Len(call.answers) = Len(QuizOf(call))) =>
        /\ Succeeded(ret)
        /\ \A i \in 1..Len(QuizOf(call)) :
              LET a == call.answers[i]
                  options == QuizOf(call)[i].options
              IN  IF a < 0 \/ a >= Len(options)
                  THEN /\ ~ret.results[i].is_correct
                       /\ ret.results[i].your_answer = "Invalid"
                  ELSE ret.results[i].your_answer = options[a + 1]

\* C5 witness: a negative and a too large index in one submission, next to
\* which the call succeeds with both answers labelled "Invalid".
C5_Witness ==
    /\ IsSubmit(call) /\ Succeeded(ret)
    /\ call.answers = <<-1, 4>>
    /\ ret.results[1].your_answer = "Invalid"
    /\ ret.results[2].your_answer = "Invalid"
    /\ ret.correct = 0

\* C6: get_user_progress is a pure read: completed_lessons is the number of
\* stored entries of the user, total_lessons the sum of the lesson counts
\* of the catalog modules, completion_percent = 100 * completed / total,
\* average_score the mean of the stored scores (0 when there are none); the
\* call leaves user_progress as it was, and a call that follows a call for
\* the same user with no submit_quiz in between returns the same result.
C6_ProgressIsPureRead ==
    [][(call.op = "none" /\ call'.op = "get_user_progress") =>
          LET u == call'.user_id
              mine == IF u \in DOMAIN user_progress THEN user_progress[u] ELSE <<>>
              completed == Cardinality(DOMAIN mine)
              total == Len(modules["gpu_fundamentals"].lessons)
                       + Len(modules["tco_modeling"].lessons)
                       + Len(modules["neocloud_economics"].lessons)
                       + Len(modules["bloomberg_integration"].lessons)
          IN  /\ user_progress' = user_progress
              /\ ret'.user_id = u
              /\ ret'.completed_lessons = completed
              /\ ret'.total_lessons = total
              /\ ret'.completion_percent.n * total
                    = 100 * completed * ret'.completion_percent.d
              /\ IF completed = 0
                 THEN ret'.average_score = RInt(0)
                 ELSE RMul(ret'.average_score, RInt(completed))
                         = SumScores(mine, DOMAIN mine)
              /\ (last_progress # None /\ last_progress.result.user_id = u)
                    => ret' = last_progress.result]_vars

\* C6 witness: a second call in a row for a user with two stored attempts of
\* scores 100 and 50: average 75, 2 of 6 lessons.
C6_Witness ==
    /\ call.op = "get_user_progress"
    /\ last_progress # None /\ history.repeated
    /\ ret.completed_lessons = 2 /\ ret.total_lessons = 6
    /\ ret.average_score = RInt(75)
    /\ ret.completion_percent = Rat(100, 3)
    /\ ret = last_progress.result

(***************************************************************************)
(* Properties of the Intent Classifier and the Financial Calculator,       *)
(* checked under SpecAI.                                                   *)
(***************************************************************************)
IsIntent(c) == c.op = "analyze_intent"

IsScenario(c, scenario_type) ==
    c.op = "run_scenario" /\ c.scenario_type = scenario_type

\* A keyword set matches a message when one of its keywords occurs in the
\* message, letter case ignored.
Matches(words, message) ==
    \E k \in 1..Len(words) :
        \E i \in 1..Len(message) :
            /\ i + Len(words[k]) - 1 <= Len(message)
            /\ \A j \in 1..Len(words[k]) :
                  LowerChar(message[i + j - 1]) = words[k][j]

\* C7: the classifier ignores letter case and returns the first category,
\* in the order tco, comparison, market, neocloud, whose keyword set matches
\* the message, and general exactly when no set matches; the five example
\* messages are classified tco, comparison, market, neocloud and general.
C7_IntentPriority ==
    IsIntent(call) =>
        LET m == call.message
            expected ==
                IF Matches(TcoWords, m) THEN "tco_calculation"
                ELSE IF Matches(ComparisonWords, m) THEN "gpu_comparison"
                ELSE IF Matches(MarketWords, m) THEN "market_data"
                ELSE IF Matches(NeocloudWords, m) THEN "neocloud_analysis"
                ELSE "general"
        IN  /\ ret.intent = expected
            /\ (m = MsgTco => ret.intent = "tco_calculation")
            /\ (m = MsgCompare => ret.intent = "gpu_comparison")
            /\ (m = MsgMarket => ret.intent = "market_data")
            /\ (m = MsgNeocloud => ret.intent = "neocloud_analysis")
            /\ (m = MsgHello => ret.intent = "general")

\* C7 witness: "Budget price" holds a tco keyword in capitals and a market
\* keyword; the classifier answers tco.
C7_Witness ==
    /\ IsIntent(call)
    /\ call.message = <<"B","u","d","g","e","t"," ","p","r","i","c","e">>
    /\ Matches(TcoWords, call.message) /\ Matches(MarketWords, call.message)
    /\ ret.intent = "tco_calculation"

\* The parameters a scenario call works with: the given value, or the
\* documented default when the request leaves the parameter out.
Param(c, key, default) ==
    IF key \in DOMAIN c.parameters THEN c.parameters[key] ELSE default

TcoPrecondition(c) ==
    /\ IsScenario(c, "tco")
    /\ Param(c, "num_gpus", RInt(8)).n >= 1
    /\ Param(c, "years", RInt(3)).n >= 1

\* C8: for every GPU type, gpuCount >= 1, years >= 1 and power rate the TCO
\* calculation returns capex = price * gpuCount, annual_power =
\* (tdp * gpuCount * 8760 * 1.3 / 1000) * powerRate, annual_maintenance =
\* capex * 0.08, total = capex + (annual_power + annual_maintenance) * years
\* and cost per GPU hour = total / (gpuCount * 8760 * years), with price and
\* tdp of the Knowledge Base entry, or 30000 and 700 for an unknown type.
C8_TcoFormula ==
    TcoPrecondition(call) =>
        LET g == Param(call, "gpu_type", "H100")
            n == Param(call, "num_gpus", RInt(8))
            rate == Param(call, "power_rate", Rat(8, 100))
            years == Param(call, "years", RInt(3))
            known == g \in {"H100", "H200", "MI300X", "B200"}
            price == IF known THEN gpu_architectures[g].price_estimate ELSE 30000
            tdp == IF known THEN gpu_architectures[g].tdp ELSE 700
        IN  /\ "raised" \notin DOMAIN ret
            /\ ret.gpu_type = g /\ ret.num_gpus = n
            /\ ret.capex = RMul(RInt(price), n)
            /\ RMul(ret.annual_power, RInt(10000))
                  = RMul(RMul(RInt(tdp * 13), RMul(n, RInt(8760))), rate)
            /\ RMul(ret.annual_maintenance, RInt(100)) = RMul(ret.capex, RInt(8))
            /\ ret.total_tco
                  = RAdd(ret.capex,
                         RAdd(RMul(ret.annual_power, years),
                              RMul(ret.annual_maintenance, years)))
            /\ RMul(ret.tco_per_gpu_hour, RMul(RMul(n, years), RInt(8760)))
                  = ret.total_tco

\* C8 witness: two GPUs of a type the Knowledge Base does not have, over two
\* years: capex 60000 from the default price.
C8_Witness ==
    /\ TcoPrecondition(call)
    /\ Param(call, "gpu_type", "H100") = "A100"
    /\ Param(call, "num_gpus", RInt(8)) = RInt(2)
    /\ Param(call, "years", RInt(3)) = RInt(2)
    /\ Param(call, "power_rate", Rat(8, 100)) = Rat(12, 100)
    /\ ret.capex = RInt(60000)
    /\ ret.annual_maintenance = RInt(4800)
    /\ ret.total_tco = RAdd(RInt(69600), RMul(ret.annual_power, RInt(2)))

RoiPrecondition(c) ==
    /\ IsScenario(c, "roi")
    /\ Param(c, "investment", RInt(240000)).n # 0

\* C9: for every input with investment # 0 the ROI calculation returns
\* annual_revenue = hourlyRate * gpuCount * 8760 * utilization, annual_cost =
\* investment * 0.4, annual_profit = revenue - cost, roi_percent =
\* annual_profit / investment * 100, payback_months = investment /
\* annual_profit * 12 when annual_profit > 0, and the infinite-payback
\* sentinel exactly when annual_profit <= 0.
C9_RoiFormula ==
    RoiPrecondition(call) =>
        LET investment == Param(call, "investment", RInt(240000))
            hourly_rate == Param(call, "hourly_rate", Rat(35, 10))
            utilization == Param(call, "utilization", Rat(85, 100))
            n == Param(call, "num_gpus", RInt(8))
        IN  /\ "raised" \notin DOMAIN ret
            /\ ret.investment = investment
            /\ ret.annual_revenue
                  = RMul(RMul(hourly_rate, utilization), RMul(n, RInt(8760)))
            /\ RMul(ret.annual_costs, RInt(10)) = RMul(investment, RInt(4))
            /\ RAdd(ret.annual_profit, ret.annual_costs) = ret.annual_revenue
            /\ RMul(ret.roi_percent, investment) = RMul(ret.annual_profit, RInt(100))
            /\ (ret.payback_months = Inf) <=> (ret.annual_profit.n <= 0)
            /\ (ret.annual_profit.n > 0) =>
                  RMul(ret.payback_months, ret.annual_profit)
                      = RMul(investment, RInt(12))

\* C9 witness: revenue 8760 against an investment of 21900: the profit is
\* exactly 0 and the payback is the sentinel.
C9_Witness ==
    /\ RoiPrecondition(call)
    /\ Param(call, "investment", RInt(240000)) = RInt(21900)
    /\ ret.annual_revenue = RInt(8760)
    /\ ret.annual_profit = RInt(0)
    /\ ret.roi_percent = RInt(0)
    /\ ret.payback_months = Inf

\* The call computeRoi(240000, 3.5, 0.85, 8), each parameter given or left
\* to its default.
IsDefaultRoi(c) ==
    /\ IsScenario(c, "roi")
    /\ Param(c, "investment", RInt(240000)) = RInt(240000)
    /\ Param(c, "hourly_rate", Rat(35, 10)) = Rat(35, 10)
    /\ Param(c, "utilization", Rat(85, 100)) = Rat(85, 100)
    /\ Param(c, "num_gpus", RInt(8)) = RInt(8)

\* C10 as stated: computeRoi(240000, 3.5, 0.85, 8) returns annual_revenue
\* 208824.0 and annual_cost 96000.0.
C10_Original ==
    IsDefaultRoi(call) =>
        /\ ret.annual_revenue = RInt(208824)
        /\ ret.annual_costs = RInt(96000)

\* C10 amended: computeRoi(240000, 3.5, 0.85, 8), also the all-defaults
\* call, returns annual_revenue 208488.0, the value of 3.5 * 8 * 8760 * 0.85,
\* and annual_cost 96000.0.
C10_DefaultRoi ==
    IsDefaultRoi(call) =>
        /\ ret.annual_revenue = RInt(208488)
        /\ ret.annual_costs = RInt(96000)

\* C10 witness: the call with no parameter given returns 208488 and 96000.
C10_Witness ==
    /\ IsScenario(call, "roi")
    /\ DOMAIN call.parameters = {}
    /\ ret.annual_revenue = RInt(208488)
    /\ ret.annual_costs = RInt(96000)
    /\ ret.annual_profit = RInt(112488)

\* C11: the calculator never fails on well-typed input: run_scenario for
\* 'tco' (gpuCount >= 1, years >= 1) and for 'roi' (any numbers, zero
\* included) returns a result and does not raise, and every parameter that
\* is absent takes its documented default (H100, 8, 0.08, 3; 240000, 3.5,
\* 0.85, 8).
C11_NeverFails ==
    /\ TcoPrecondition(call) =>
          /\ "raised" \notin DOMAIN ret
          /\ ret.gpu_type = Param(call, "gpu_type", "H100")
          /\ ret.num_gpus = Param(call, "num_gpus", RInt(8))
    /\ IsScenario(call, "roi") =>
          /\ "raised" \notin DOMAIN ret
          /\ ret.investment = Param(call, "investment", RInt(240000))

\* C12: a power_usage_effectiveness given by the caller (the 'pue'
\* parameter of the TCO request) is used instead of the default 1.3:
\* annual_power = (tdp * gpuCount * 8760 * pue / 1000) * powerRate.
C12_PueOverride ==
    (TcoPrecondition(call) /\ "pue" \in DOMAIN call.parameters) =>
        LET g == Param(call, "gpu_type", "H100")
            n == Param(call, "num_gpus", RInt(8))
            rate == Param(call, "power_rate", Rat(8, 100))
            pue == call.parameters["pue"]
            tdp == IF g \in DOMAIN gpu_architectures
                   THEN gpu_architectures[g].tdp ELSE 700
        IN  RMul(ret.annual_power, RInt(1000))
               = RMul(RMul(RMul(RInt(tdp), n), RMul(RInt(8760), pue)), rate)

\* C19: run_scenario returns scenario results for each of the documented
\* types tco, comparison and roi, and an error result naming the type for
\* any other scenario type.
C19_DocumentedScenarios ==
    call.op = "run_scenario" =>
        IF call.scenario_type \in {"tco", "comparison", "roi"}
        THEN "error" \notin DOMAIN ret
        ELSE ret = [error |-> "Unknown scenario type: " \o call.scenario_type]

IsBloomberg(c, op) == c.op = op /\ bloomberg # None

\* C13: get_reference_data and get_historical_data, called while
\* is_connected() is false (before any connect or after a disconnect), raise
\* a connection error, in fallback mode and in live mode alike, and leave
\* the service as it was.
C13_NotConnectedRaises ==
    [][(/\ call.op = "none"
        /\ bloomberg # None
        /\ ~is_connected(bloomberg)
        /\ call'.op \in {"get_reference_data", "get_historical_data"})
       => (ret' = Raised("ConnectionError") /\ bloomberg' = bloomberg)]_vars

C13_Witness ==
    /\ IsBloomberg(call, "get_historical_data")
    /\ ~bloomberg.blpapi_available
    /\ bloomberg.last_op = "disconnect"
    /\ bloomberg.prev_op = "connect_true"
    /\ ret = Raised("ConnectionError")

\* C14: in fallback mode the service starts disconnected, connect() always
\* returns True, and is_connected() is true exactly when the most recent of
\* connect / disconnect was a connect; both are idempotent.
C14_FallbackConnection ==
    (bloomberg # None /\ ~bloomberg.blpapi_available) =>
        /\ bloomberg.last_op = "none" => ~is_connected(bloomberg)
        /\ bloomberg.last_op # "none" =>
              (is_connected(bloomberg) <=> bloomberg.last_op = "connect_true")
        /\ call.op = "connect" => ret = [value |-> TRUE]
        /\ bloomberg.last_op # "connect_false"

C14_Witness ==
    /\ IsBloomberg(call, "disconnect")
    /\ ~bloomberg.blpapi_available
    /\ bloomberg.last_op = "disconnect"
    /\ bloomberg.prev_op = "disconnect"
    /\ ~is_connected(bloomberg)

\* C15: in live mode connect() returns False, and raises nothing, whenever
\* any step of the session handshake fails: creating the session, starting
\* it, or opening the reference-data service.
C15_LiveConnectFailure ==
    (IsBloomberg(call, "connect") /\ bloomberg.blpapi_available
        /\ call.outcome # "ok")
    => ret = [value |-> FALSE]

C15_Witness ==
    /\ IsBloomberg(call, "connect")
    /\ bloomberg.blpapi_available
    /\ call.outcome = "open_raises"
    /\ ret = [value |-> FALSE]

KnownTickers ==
    {"NVDA US Equity", "AMD US Equity", "INTC US Equity", "TSM US Equity",
     "AVGO US Equity", "EQIX US Equity", "DLR US Equity"}

\* C16: connected in fallback mode, get_reference_data returns an entry for
\* exactly the requested securities found in the seven-ticker table; each
\* entry has exactly the requested fields, with the table's value for a
\* field the ticker has and "N/A" for one it has not.
C16_MockReferenceData ==
    (IsBloomberg(call, "get_reference_data") /\ ~bloomberg.blpapi_available
        /\ is_connected(bloomberg))
    => /\ DOMAIN ret = Elements(call.securities) \cap KnownTickers
       /\ \A security \in DOMAIN ret :
             /\ DOMAIN ret[security] = Elements(call.fields)
             /\ \A field \in Elements(call.fields) :
                   ret[security][field] =
                      IF field \in DOMAIN mock_data[security]
                      THEN mock_data[security][field] ELSE "N/A"

C16_Witness ==
    /\ IsBloomberg(call, "get_reference_data")
    /\ ~bloomberg.blpapi_available
    /\ is_connected(bloomberg)
    /\ call.securities = <<"NVDA US Equity", "XXXX US Equity">>
    /\ call.fields = <<"PX_LAST", "DVD_YLD">>
    /\ ret = ("NVDA US Equity" :> [PX_LAST |-> "875.28", DVD_YLD |-> "N/A"])

IsChat(c) == c.op = "chat"

RowIndex(name) == CHOOSE i \in 1..Len(GpuOrder) : GpuOrder[i] = name

PerfPerDollar(name) ==
    Rat(gpu_architectures[name].fp16_tflops * 1000,
        gpu_architectures[name].price_estimate)

\* C17: the comparison generator's list holds every GPU of the knowledge
\* base exactly once, in non-increasing order of fp16_tflops / (price/1000),
\* GPUs of equal ratio in knowledge-base order; for the four seeded GPUs the
\* order is B200, MI300X, H100, H200.
C17_ComparisonOrder ==
    (IsChat(call) /\ ret.intent = "gpu_comparison") =>
        LET table == ret.data
        IN  /\ Len(table) = Len(GpuOrder)
            /\ \A i \in 1..Len(GpuOrder) :
                  Cardinality({j \in 1..Len(table) :
                                  table[j].name = GpuOrder[i]}) = 1
            /\ \A i, j \in 1..Len(table) :
                  i < j =>
                     /\ RLeq(PerfPerDollar(table[j].name),
                             PerfPerDollar(table[i].name))
                     /\ PerfPerDollar(table[i].name)
                           = PerfPerDollar(table[j].name)
                        => RowIndex(table[i].name) < RowIndex(table[j].name)
            /\ [i \in 1..Len(table) |-> table[i].name]
                  = <<"B200", "MI300X", "H100", "H200">>

C17_Witness ==
    /\ IsChat(call)
    /\ call.message = MsgCompare
    /\ ret.intent = "gpu_comparison"
    /\ ret.data[1].name = "B200"
    /\ ret.data[1].perf_per_dollar = Rat(1125, 10)
    /\ ret.data[4].name = "H200"
    /\ ret.data[4].perf_per_dollar = Rat(4948, 100)

\* C18: chat returns {response, data, intent} with the intent the classifier
\* gives the message, and the three fields are the same for every message
\* of that intent and every context; the tco answer is the fixed 8 x H100
\* scenario whatever numbers the message holds.
C18_IntentAlone ==
    IsChat(call) =>
        /\ DOMAIN ret = {"response", "data", "intent"}
        /\ ret.intent = analyze_intent(call.message)
        /\ ret.intent \in DOMAIN chat_seen
        /\ ret = chat_seen[ret.intent].result
        /\ ret.intent = "tco_calculation" =>
              /\ ret.data.capex = RInt(8 * 30000)
              /\ ret.data = [capex |-> RInt(240000),
                             annual_power |-> Rat(5101824, 1000),
                             annual_maintenance |-> RInt(19200),
                             total_tco |-> Rat(312905472, 1000),
                             cost_per_gpu_hour |->
                                RDiv(Rat(312905472, 1000), RInt(8 * 8760 * 3))]

\* C18 witness: the first tco answer went to an example message without
\* context; a later message naming 16 B200 GPUs, sent with a context that
\* names 64 GPUs, gets the same answer.
C18_Witness ==
    /\ IsChat(call)
    /\ call.message = MsgTcoSixteen
    /\ call.context # <<>>
    /\ "tco_calculation" \in DOMAIN chat_seen
    /\ chat_seen["tco_calculation"].plain
    /\ ret = chat_seen["tco_calculation"].result
    /\ ret.data.capex = RInt(240000)

Finished(t) == t \in DOMAIN threads /\ threads[t].pc = "done" /\ threads[t].ok

HasEntry(t) ==
    /\ threads[t].user_id \in DOMAIN user_progress
    /\ threads[t].key \in DOMAIN user_progress[threads[t].user_id]

\* C20: when two submit_quiz calls for the same user, on different lessons,
\* run concurrently and both succeed, both entries are in user_progress once
\* both calls have finished (calls interfere only by last-writer-wins on the
\* same entry).
C20_BothEntriesPresent ==
    (/\ Finished("t1") /\ Finished("t2")
     /\ threads["t1"].user_id = threads["t2"].user_id
     /\ threads["t1"].key # threads["t2"].key)
    => (HasEntry("t1") /\ HasEntry("t2"))

(***************************************************************************)
(* Further properties of the Progress Tracker, checked under Spec.         *)
(***************************************************************************)
KeyOf(module_id, lesson_id) == module_id \o "_" \o lesson_id

CatalogPairs ==
    UNION {{<<m, modules[m].lessons[i].id>> :
               i \in 1..Len(modules[m].lessons)} : m \in DOMAIN modules}

Completed(progress_map, u) ==
    IF u \in DOMAIN progress_map THEN Cardinality(DOMAIN progress_map[u]) ELSE 0

Keeps(before, after) ==
    \A u \in DOMAIN before :
        /\ u \in DOMAIN after
        /\ DOMAIN before[u] \subseteq DOMAIN after[u]

\* C21: a stored attempt is never removed: no step (a submit_quiz that
\* succeeds or fails, a get_user_progress, the hand-over of a result) takes
\* a (user, lesson) entry out of user_progress, so no user's number of
\* completed lessons ever decreases.
C21_AttemptsStay ==
    [][/\ Keeps(user_progress, user_progress')
       /\ \A u \in UserIds :
             Completed(user_progress', u) >= Completed(user_progress, u)]_vars

\* C21 witness: a submission with the wrong number of answers, for a lesson
\* whose earlier attempt is still stored after the refusal.
C21_Witness ==
    /\ IsSubmit(call)
    /\ ret = [error |-> "Answer count mismatch"]
    /\ HasStored(user_progress, call)
    /\ Completed(user_progress, call.user_id) = 2

\* C22: a submit_quiz that succeeds changes only the entry of its user,
\* module and lesson: every entry of another user, and of another lesson of
\* the same user, is there before and after with the same content.  (The
\* catalog is the definition modules, which no action assigns.)
C22_SubmitFrame ==
    [][(call.op = "none" /\ call'.op = "submit_quiz" /\ Succeeded(ret')) =>
          LET user == call'.user_id
              key == KeyOf(call'.module_id, call'.lesson_id)
          IN  /\ \A u \in DOMAIN user_progress' :
                    \A k \in DOMAIN user_progress'[u] :
                        (u # user \/ k # key) =>
                            /\ u \in DOMAIN user_progress
                            /\ k \in DOMAIN user_progress[u]
                            /\ user_progress'[u][k] = user_progress[u][k]
              /\ \A u \in DOMAIN user_progress :
                    \A k \in DOMAIN user_progress[u] :
                        (u # user \/ k # key) =>
                            /\ u \in DOMAIN user_progress'
                            /\ k \in DOMAIN user_progress'[u]]_vars

\* C22 witness: a success for a user who has an attempt on another lesson,
\* both stored afterwards.
C22_Witness ==
    /\ IsSubmit(call) /\ Succeeded(ret)
    /\ HasStored(user_progress, call)
    /\ Completed(user_progress, call.user_id) = 2
    /\ history.replaced = None

\* C25: every stored progress key is the key of exactly one (module, lesson)
\* pair of the catalog, two pairs never share a key, and so a progress
\* report has completed_lessons <= total_lessons and completion_percent
\* <= 100.
C25_KeysNameLessons ==
    /\ \A u \in DOMAIN user_progress :
          \A k \in DOMAIN user_progress[u] :
              Cardinality({pair \in CatalogPairs :
                              KeyOf(pair[1], pair[2]) = k}) = 1
    /\ \A pair, other \in CatalogPairs :
          pair # other => KeyOf(pair[1], pair[2]) # KeyOf(other[1], other[2])
    /\ call.op = "get_user_progress" =>
          /\ ret.completed_lessons <= ret.total_lessons
          /\ RLeq(ret.completion_percent, RInt(100))

\* C25 witness: a report for a user with attempts on two lessons of one
\* module.
C25_Witness ==
    /\ call.op = "get_user_progress"
    /\ ret.completed_lessons = 2
    /\ ret.total_lessons = 6
    /\ DOMAIN ret.lesson_details
          = {"gpu_fundamentals_gpu_1", "gpu_fundamentals_gpu_2"}

(***************************************************************************)
(* A further property of the Intent Classifier, checked under SpecAI.      *)
(***************************************************************************)
\* word is a token of message: it fills a maximal run of characters between
\* spaces, letter case ignored.
IsToken(word, message) ==
    \E i \in 1..Len(message) :
        /\ i + Len(word) - 1 <= Len(message)
        /\ \A j \in 1..Len(word) : LowerChar(message[i + j - 1]) = word[j]
        /\ (i = 1 \/ message[i - 1] = " ")
        /\ (i + Len(word) - 1 = Len(message) \/ message[i + Len(word)] = " ")

HasKeywordToken(message) ==
    \E words \in {TcoWords, ComparisonWords, MarketWords, NeocloudWords} :
        \E k \in 1..Len(words) : IsToken(words[k], message)

\* C23: a keyword matches only as a token of the lower-cased message, so a
\* message none of whose tokens is a keyword (a keyword such as "tco" or
\* "vs" occurring only inside a longer word) is classified general.
C23_TokenMembership ==
    (IsIntent(call) /\ ~HasKeywordToken(call.message))
    => ret.intent = "general"

(***************************************************************************)
(* Further properties of the Market Data Provider, checked under           *)
(* SpecBloomberg.                                                          *)
(***************************************************************************)
\* The Saturdays and Sundays among the dates asked for.
Weekends == {20240127, 20240128, 20240203, 20240204}

DateNumber(date) == date[1] * 10000 + date[2] * 100 + date[3]

\* C24: connected in fallback mode, get_historical_data returns exactly one
\* point for every calendar day from start_date to end_date, both included,
\* that is a Monday to Friday, in strictly increasing date order, no point
\* for a Saturday or Sunday, and no point at all when start_date is after
\* end_date; a point carries its date and, of the requested fields, only
\* PX_LAST and PX_VOLUME.
C24_MockHistoricalData ==
    (IsBloomberg(call, "get_historical_data") /\ ~bloomberg.blpapi_available
        /\ is_connected(bloomberg))
    => LET points == ret.points
           days == {d \in 20240127..20240229 :
                       /\ d <= 20240131 \/ d >= 20240201
                       /\ call.start_date <= d /\ d <= call.end_date
                       /\ d \notin Weekends}
       IN  /\ Len(points) = Cardinality(days)
           /\ \A i \in 1..Len(points) :
                 /\ DateNumber(points[i].date) \in days
                 /\ DOMAIN points[i] =
                       {"date"} \cup
                       (Elements(call.fields) \cap {"PX_LAST", "PX_VOLUME"})
           /\ \A i, j \in 1..Len(points) :
                 i < j => DateNumber(points[i].date) < DateNumber(points[j].date)
           /\ call.start_date > call.end_date => points = <<>>

\* C24 witness: Saturday 27 January to Saturday 3 February 2024, asking for
\* the price and a field the generator does not know: five points, Monday
\* 29 January to Friday 2 February, each with its date and the price.
C24_Witness ==
    /\ IsBloomberg(call, "get_historical_data")
    /\ ~bloomberg.blpapi_available
    /\ is_connected(bloomberg)
    /\ call.start_date = 20240127 /\ call.end_date = 20240203
    /\ call.fields = <<"PX_LAST", "NO_SUCH_FIELD">>
    /\ Len(ret.points) = 5
    /\ ret.points[1] = [date |-> <<2024, 1, 29>>, PX_LAST |-> "price"]
    /\ ret.points[5] = [date |-> <<2024, 2, 2>>, PX_LAST |-> "price"]

\* C27: in live mode, is_connected() is true only if the most recent
\* connect() returned True and no disconnect() followed it; after a
\* connect() that returns False it is false, also when the service was
\* connected before that call.
C27_LiveConnection ==
    (bloomberg # None /\ bloomberg.blpapi_available /\ is_connected(bloomberg))
    => bloomberg.last_op = "connect_true"

(***************************************************************************)
(* Properties of the routes, checked under SpecRoutes.                     *)
(***************************************************************************)
Answered(t, route) ==
    /\ t \in DOMAIN routes.requests
    /\ routes.requests[t].pc = "done"
    /\ routes.requests[t].route = route

\* C26: get_training_service constructs the service at most once, also when
\* the first requests arrive together, so a progress request answers with
\* every submission for its user that a route had answered with success
\* before the request began.
C26_SingleService ==
    /\ Len(routes.instances) <= 1
    /\ \A t \in Threads :
          Answered(t, "get_progress") =>
              routes.requests[t].expect
                 \subseteq DOMAIN routes.requests[t].result.lesson_details

\* C28: the training_progress of the dashboard overview is the progress of
\* the process: once a submission for user "default" has been answered with
\* success by the training route, a later overview reports at least one
\* completed lesson, with that lesson among its details.
C28_OverviewProgress ==
    \A t \in Threads :
        (Answered(t, "overview") /\ routes.requests[t].expect # {}) =>
            /\ routes.requests[t].result.completed_lessons >= 1
            /\ routes.requests[t].expect
                  \subseteq DOMAIN routes.requests[t].result.lesson_details

====
